---- MODULE Spec2Model ----
(***************************************************************************)
(* Model of the text segmentation and structuring routines of the document *)
(* processing platform:                                                    *)
(*   OpenAIService._chunk_text        (app/services/openai_service.py)     *)
(*   ReportGenerator._format_summary  (app/services/report_generator.py)   *)
(*   DocumentProcessor._extract_pii   (app/services/document_processor.py) *)
(* A Python str is a sequence of one-character strings.  The bullet marker *)
(* U+2022 is written "*" (the module text is ASCII).                       *)
(***************************************************************************)
EXTENDS Integers, Sequences, FiniteSets, TLC

VARIABLES
    text,             \* the str argument of the routine being run
    pc,               \* position of the running routine
    max_chunk_size,   \* _chunk_text: the budget argument
    words,            \* _chunk_text: text.split()
    wi,               \* _chunk_text: number of words the for loop has consumed
    chunks,           \* _chunk_text: the result list
    current_chunk,    \* _chunk_text: words of the chunk in progress
    current_size,     \* _chunk_text: estimated size of the chunk in progress
    raised,           \* exception raised by the running routine ("none" if none)
    lines,            \* _format_summary: text.split('\n')
    i,                \* _format_summary: the scan pointer (0-based)
    paragraphs,       \* _format_summary: the flowables emitted so far
    current_text,     \* _format_summary: pending paragraph lines
    findings,         \* _extract_pii: the result dict (a function on its keys)
    pii_k,            \* _extract_pii: index of the pattern being applied
    matches,          \* _extract_pii: matches of the current pattern so far
    pos,              \* _extract_pii: where re.finditer resumes (0-based)
    files,            \* storage/documents: the content of each <document_id>.json
    op,               \* the last service call made and whether its collaborator failed
    ret,              \* the value the last service call returned
    saved,            \* per id, what the last successful save not followed by a delete stored
    frames,           \* per concurrent caller, the locals of the call it is running
    instances,        \* the attributes of the shared service instances
    ncalls,           \* per concurrent caller, the number of calls it has made
    request,          \* main.py: the HTTP request being handled and the handler's locals
    reply,            \* main.py: the response sent for the request
    reports,          \* the file names present in the reports directory
    trace             \* the service calls the handler has made for the request

chunkVars == <<max_chunk_size, words, wi, chunks, current_chunk, current_size>>
parseVars == <<lines, i, paragraphs, current_text>>
piiVars == <<findings, pii_k, matches, pos>>
svcVars == <<files, op, ret, saved>>
conVars == <<frames, instances, ncalls>>
apiVars == <<request, reply, reports, trace>>
vars == <<text, pc, raised, chunkVars, parseVars, piiVars, svcVars, conVars, apiVars>>

(***************************************************************************)
(* Bounds                                                                  *)
(***************************************************************************)
MaxChunkPieces == 6
MaxBudget == 3
MaxNonPositive == 1
MaxParseTextLen == 4
MaxParseLines == 4
MaxPiiPieces == 3

(***************************************************************************)
(* Python str helpers                                                      *)
(***************************************************************************)
Bullet == "*"

Chars(s) == [k \in 1..Len(s) |-> SubSeq(s, k, k)]

IsSpace(c) == c \in {" ", "\t", "\n", "\r"}

IsDigit(c) == c \in {"0", "1", "2", "3", "4", "5", "6", "7", "8", "9"}

SeqsUpTo(S, n) == UNION {[1..k -> S] : k \in 0..n}

\* str.split() with no separator: maximal runs of non-whitespace, in order
RECURSIVE SplitWsFrom(_, _, _, _)
SplitWsFrom(s, k, cur, acc) ==
    IF k > Len(s)
    THEN IF cur = <<>> THEN acc ELSE Append(acc, cur)
    ELSE IF IsSpace(s[k])
         THEN SplitWsFrom(s, k + 1, <<>>, IF cur = <<>> THEN acc ELSE Append(acc, cur))
         ELSE SplitWsFrom(s, k + 1, Append(cur, s[k]), acc)

SplitWs(s) == SplitWsFrom(s, 1, <<>>, <<>>)

\* str.split(sep) with a one-character separator: empty pieces are kept
RECURSIVE SplitOnFrom(_, _, _, _, _)
SplitOnFrom(s, sep, k, cur, acc) ==
    IF k > Len(s)
    THEN Append(acc, cur)
    ELSE IF s[k] = sep
         THEN SplitOnFrom(s, sep, k + 1, <<>>, Append(acc, cur))
         ELSE SplitOnFrom(s, sep, k + 1, Append(cur, s[k]), acc)

SplitOn(s, sep) == SplitOnFrom(s, sep, 1, <<>>, <<>>)

\* sep.join(parts)
RECURSIVE Join(_, _)
Join(parts, sep) ==
    IF parts = <<>> THEN <<>>
    ELSE IF Len(parts) = 1 THEN parts[1]
    ELSE parts[1] \o sep \o Join(Tail(parts), sep)

RECURSIVE LStrip(_)
LStrip(s) == IF s # <<>> /\ IsSpace(s[1]) THEN LStrip(Tail(s)) ELSE s

RECURSIVE RStrip(_)
RStrip(s) ==
    IF s # <<>> /\ IsSpace(s[Len(s)]) THEN RStrip(SubSeq(s, 1, Len(s) - 1)) ELSE s

\* str.strip()
Strip(s) == RStrip(LStrip(s))

\* s[n:]
SliceFrom(s, n) == SubSeq(s, n + 1, Len(s))

(***************************************************************************)
(* Values of the service layer that the text routines leave untouched      *)
(***************************************************************************)
\* a file of the storage directory: missing, a JSON document, or bytes that
\* are not a JSON document
Absent == [state |-> "absent"]
JsonFile(d) == [state |-> "json", data |-> d]
Partial == [state |-> "partial"]

DocumentIds == {"", "a", "b"}

\* line 27: self.storage_dir / f"{document_id}.json"
FilePath(document_id) == document_id \o ".json"

StoredPaths == {FilePath(d) : d \in DocumentIds \ {""}}

NoFiles == [path \in StoredPaths |-> Absent]
NoCall == [name |-> "none", document_id |-> "", failed |-> FALSE]
NoValue == [kind |-> "nothing"]
NoFrames == <<>>
NoInstances == <<>>
NoCalls == <<>>
NoRequest == [endpoint |-> "none", pc |-> "idle"]
NoReply == [status |-> 0]

(***************************************************************************)
(* OpenAIService._chunk_text                                               *)
(***************************************************************************)
\* input texts: up to MaxChunkPieces pieces, each a word of estimated size
\* 1, 2 or 3 or a whitespace character
ChunkPieces == {Chars("a"), Chars("bbbb"), Chars("cccccccc"), Chars(" ")}
ChunkTexts == {Join(ps, <<>>) : ps \in SeqsUpTo(ChunkPieces, MaxChunkPieces)}
Budgets == (0 - MaxNonPositive)..MaxBudget

\* len(word) // 4 + 1
WordSize(word) == (Len(word) \div 4) + 1

InitChunk ==
    /\ text \in ChunkTexts
    /\ max_chunk_size \in Budgets
    /\ pc = "chunk_call"
    /\ words = <<>>
    /\ wi = 0
    /\ chunks = <<>>
    /\ current_chunk = <<>>
    /\ current_size = 0
    /\ raised = "none"
    /\ lines = <<>>
    /\ i = 0
    /\ paragraphs = <<>>
    /\ current_text = <<>>
    /\ findings = <<>>
    /\ pii_k = 0
    /\ matches = <<>>
    /\ pos = 0
    /\ files = NoFiles
    /\ op = NoCall
    /\ ret = NoValue
    /\ saved = NoFiles
    /\ frames = NoFrames
    /\ instances = NoInstances
    /\ ncalls = NoCalls
    /\ request = NoRequest
    /\ reply = NoReply
    /\ reports = {}
    /\ trace = <<>>

\* lines 69-72: words = text.split(); chunks = []; current_chunk = []; current_size = 0
ChunkCall ==
    /\ pc = "chunk_call"
    /\ words' = SplitWs(text)
    /\ wi' = 0
    /\ chunks' = <<>>
    /\ current_chunk' = <<>>
    /\ current_size' = 0
    /\ pc' = "chunk_loop"
    /\ UNCHANGED <<text, max_chunk_size, raised, parseVars, piiVars, svcVars, conVars, apiVars>>

\* ChunkClose with the size of the new chunk's first word forgotten
ChunkCloseForgetsSize ==
    /\ pc = "chunk_loop"
    /\ wi < Len(words)
    /\ LET word == words[wi + 1]
           word_size == WordSize(word)
       IN /\ current_size + word_size > max_chunk_size
          /\ chunks' = Append(chunks, Join(current_chunk, <<" ">>))
          /\ current_chunk' = <<word>>
          /\ current_size' = 0
    /\ wi' = wi + 1
    /\ UNCHANGED <<text, pc, max_chunk_size, words, raised, parseVars, piiVars, svcVars, conVars, apiVars>>

\* lines 77-80: the word does not fit, the chunk in progress is closed
ChunkClose ==
    /\ pc = "chunk_loop"
    /\ wi < Len(words)
    /\ LET word == words[wi + 1]
           word_size == WordSize(word)
       IN /\ current_size + word_size > max_chunk_size
          /\ chunks' = Append(chunks, Join(current_chunk, <<" ">>))
          /\ current_chunk' = <<word>>
          /\ current_size' = word_size
    /\ wi' = wi + 1
    /\ UNCHANGED <<text, pc, max_chunk_size, words, raised, parseVars, piiVars, svcVars, conVars, apiVars>>

\* lines 81-83: the word joins the chunk in progress
ChunkAppend ==
    /\ pc = "chunk_loop"
    /\ wi < Len(words)
    /\ LET word == words[wi + 1]
           word_size == WordSize(word)
       IN /\ ~(current_size + word_size > max_chunk_size)
          /\ current_chunk' = Append(current_chunk, word)
          /\ current_size' = current_size + word_size
    /\ wi' = wi + 1
    /\ UNCHANGED <<text, pc, max_chunk_size, words, chunks, raised, parseVars, piiVars, svcVars, conVars, apiVars>>

\* lines 85-88: the last chunk in progress is appended and chunks returned
ChunkReturn ==
    /\ pc = "chunk_loop"
    /\ wi = Len(words)
    /\ chunks' = IF current_chunk # <<>>
                 THEN Append(chunks, Join(current_chunk, <<" ">>))
                 ELSE chunks
    /\ pc' = "chunk_done"
    /\ UNCHANGED <<text, max_chunk_size, words, wi, current_chunk, current_size,
                   raised, parseVars, piiVars, svcVars, conVars, apiVars>>

NextChunk == ChunkCall \/ ChunkClose \/ ChunkAppend \/ ChunkReturn

SpecChunk == InitChunk /\ [][NextChunk]_vars

\* the estimated size of a chunk: the sum of len(word) // 4 + 1 over its words
RECURSIVE SumSizes(_)
SumSizes(ws) == IF ws = <<>> THEN 0 ELSE ((Len(Head(ws)) \div 4) + 1) + SumSizes(Tail(ws))

EstimatedSize(chunk) == SumSizes(SplitWs(chunk))

\* ' '.join(text.split()): the whitespace-normalized text
NormalizeWhitespace(s) == Join(SplitWs(s), <<" ">>)

\* C1: for a budget B > 0 the returned chunks joined by single spaces are
\* exactly the whitespace-normalized text: no word dropped, duplicated or
\* reordered, no extra separator.
C1_RoundTrip ==
    (pc = "chunk_done" /\ max_chunk_size > 0)
        => Join(chunks, <<" ">>) = NormalizeWhitespace(text)

\* C2: for a budget B > 0 every returned chunk has estimated size at most B,
\* except a chunk of exactly one word whose own estimated size exceeds B.
C2_ChunkWithinBudget ==
    (pc = "chunk_done" /\ max_chunk_size > 0)
        => \A k \in 1..Len(chunks) :
              \/ EstimatedSize(chunks[k]) <= max_chunk_size
              \/ /\ Len(SplitWs(chunks[k])) = 1
                 /\ EstimatedSize(chunks[k]) > max_chunk_size

\* C2 witness: a finished call that closed a full multi-word chunk and also
\* returned a single oversized word as its own chunk
C2_Witness ==
    /\ pc = "chunk_done"
    /\ max_chunk_size > 0
    /\ \E k \in 1..Len(chunks) :
          Len(SplitWs(chunks[k])) >= 2 /\ EstimatedSize(chunks[k]) = max_chunk_size
    /\ \E k \in 1..Len(chunks) :
          Len(SplitWs(chunks[k])) = 1 /\ EstimatedSize(chunks[k]) > max_chunk_size

\* C3: a call with max_chunk_size <= 0 fails with an invalid-argument error and
\* returns no chunk list.
C3_NonPositiveBudgetRejected ==
    (max_chunk_size <= 0 /\ pc # "chunk_call")
        => (raised = "InvalidArgument" /\ pc # "chunk_done" /\ chunks = <<>>)

(***************************************************************************)
(* ReportGenerator._format_summary                                         *)
(***************************************************************************)
\* reportlab flowables as built by the routine
Paragraph(t, style) == [kind |-> "Paragraph", text |-> t, style |-> style]

Spacer(w, h) == [kind |-> "Spacer", width |-> w, height |-> h]

\* line.startswith(bullet marker)
StartsWithBullet(line) == line # <<>> /\ line[1] = Bullet

\* re.match(r'^\d+\.', line)
MatchNumbered(line) ==
    \E k \in 1..(Len(line) - 1) :
        /\ \A j \in 1..k : IsDigit(line[j])
        /\ line[k + 1] = "."

\* IsHeading without the test that the next line is blank
IsHeadingAnyNextLine(ls, idx) ==
    /\ idx < Len(ls) - 1
    /\ ~StartsWithBullet(Strip(ls[idx + 1]))
    /\ ~MatchNumbered(Strip(ls[idx + 1]))

\* IsHeading that does not look ahead from the line before the last one
IsHeadingNotBeforeLast(ls, idx) ==
    /\ idx < Len(ls) - 2
    /\ Strip(ls[idx + 2]) = <<>>
    /\ ~StartsWithBullet(Strip(ls[idx + 1]))
    /\ ~MatchNumbered(Strip(ls[idx + 1]))

\* lines 115-116: the heading test for the line at 0-based index idx
IsHeading(ls, idx) ==
    /\ idx < Len(ls) - 1
    /\ Strip(ls[idx + 2]) = <<>>
    /\ ~StartsWithBullet(Strip(ls[idx + 1]))
    /\ ~MatchNumbered(Strip(ls[idx + 1]))

\* Flush without the test for pending text
FlushAlways(paras, cur) ==
    Append(paras, Paragraph(Join(cur, <<" ">>), "NormalText"))

\* lines 108-110, 117-119, 127-129, 148-150, 171-172: flush of the pending text
Flush(paras, cur) ==
    IF cur # <<>>
    THEN Append(paras, Paragraph(Join(cur, <<" ">>), "NormalText"))
    ELSE paras

\* BulletPoint that removes the marker only and does not trim
BulletPointKeepsSpace(raw) == SliceFrom(Strip(raw), 1)

\* line 134: lines[i].strip()[2:].strip()
BulletPoint(raw) == Strip(SliceFrom(Strip(raw), 2))

\* BulletRunEnd of an inner loop that stops after one line
BulletRunEndOneLine(ls, idx) == idx + 1

\* BulletRunEnd of an inner loop that consumes nothing
BulletRunEndStalls(ls, idx) == idx

\* line 133: the index at which the inner bullet loop stops
RECURSIVE BulletRunEnd(_, _)
BulletRunEnd(ls, idx) ==
    IF idx < Len(ls) /\ StartsWithBullet(Strip(ls[idx + 1]))
    THEN BulletRunEnd(ls, idx + 1)
    ELSE idx

\* NumberedRunEnd of an inner loop that stops after one line
NumberedRunEndOneLine(ls, idx) == idx + 1

\* line 154: the index at which the inner numbered loop stops
RECURSIVE NumberedRunEnd(_, _)
NumberedRunEnd(ls, idx) ==
    IF idx < Len(ls) /\ MatchNumbered(Strip(ls[idx + 1]))
    THEN NumberedRunEnd(ls, idx + 1)
    ELSE idx

\* lines 138-142: one ListItem paragraph per collected bullet point
BulletFlowables(ls, from, to) ==
    [k \in 1..(to - from) |->
        Paragraph(<<Bullet, " ">> \o BulletPoint(ls[from + k]), "ListItem")]

\* lines 159-163: one ListItem paragraph per collected numbered item
NumberedFlowables(ls, from, to) ==
    [k \in 1..(to - from) |-> Paragraph(Strip(ls[from + k]), "ListItem")]

ParseAlphabet == {"a", "b", " ", Bullet, "1", ".", "\n"}

SampleSummary ==
    Chars("Overview\n\nThis is a test.\n\n* first\n* second\n\n1. one\n2. two")

\* whole lines: blank, plain, plain with surrounding whitespace, bullet with
\* and without a space after the marker, numbered
ParseLinePieces ==
    {<<>>, Chars("a"), Chars(" b "), Chars("* c"), Chars("*d"), Chars("1. e")}

\* input texts: every short text over ParseAlphabet, every text of up to
\* MaxParseLines lines drawn from ParseLinePieces, and the sample summary
ParseTexts ==
    SeqsUpTo(ParseAlphabet, MaxParseTextLen)
        \cup {Join(ls, <<"\n">>) : ls \in SeqsUpTo(ParseLinePieces, MaxParseLines)}
        \cup {SampleSummary}

InitParse ==
    /\ text \in ParseTexts
    /\ pc = "parse_call"
    /\ raised = "none"
    /\ lines = <<>>
    /\ i = 0
    /\ paragraphs = <<>>
    /\ current_text = <<>>
    /\ max_chunk_size = 0
    /\ words = <<>>
    /\ wi = 0
    /\ chunks = <<>>
    /\ current_chunk = <<>>
    /\ current_size = 0
    /\ findings = <<>>
    /\ pii_k = 0
    /\ matches = <<>>
    /\ pos = 0
    /\ files = NoFiles
    /\ op = NoCall
    /\ ret = NoValue
    /\ saved = NoFiles
    /\ frames = NoFrames
    /\ instances = NoInstances
    /\ ncalls = NoCalls
    /\ request = NoRequest
    /\ reply = NoReply
    /\ reports = {}
    /\ trace = <<>>

\* lines 99-103
ParseCall ==
    /\ pc = "parse_call"
    /\ paragraphs' = <<>>
    /\ current_text' = <<>>
    /\ lines' = SplitOn(text, "\n")
    /\ i' = 0
    /\ pc' = "parse_scan"
    /\ UNCHANGED <<text, raised, chunkVars, piiVars, svcVars, conVars, apiVars>>

\* lines 107-112: blank line
ParseBlank ==
    /\ pc = "parse_scan"
    /\ i < Len(lines)
    /\ Strip(lines[i + 1]) = <<>>
    /\ paragraphs' = Flush(paragraphs, current_text)
    /\ current_text' = <<>>
    /\ i' = i + 1
    /\ UNCHANGED <<text, pc, raised, lines, chunkVars, piiVars, svcVars, conVars, apiVars>>

\* ParseHeading that consumes the heading line only
ParseHeadingOneLine ==
    /\ pc = "parse_scan"
    /\ i < Len(lines)
    /\ Strip(lines[i + 1]) # <<>>
    /\ IsHeading(lines, i)
    /\ paragraphs' = Flush(paragraphs, current_text)
                        \o <<Paragraph(Strip(lines[i + 1]), "SubsectionTitle"),
                             Spacer(1, 10)>>
    /\ current_text' = <<>>
    /\ i' = i + 1
    /\ UNCHANGED <<text, pc, raised, lines, chunkVars, piiVars, svcVars, conVars, apiVars>>

\* lines 115-123: heading (a non-list line followed by a blank line)
ParseHeading ==
    /\ pc = "parse_scan"
    /\ i < Len(lines)
    /\ Strip(lines[i + 1]) # <<>>
    /\ IsHeading(lines, i)
    /\ paragraphs' = Flush(paragraphs, current_text)
                        \o <<Paragraph(Strip(lines[i + 1]), "SubsectionTitle"),
                             Spacer(1, 10)>>
    /\ current_text' = <<>>
    /\ i' = i + 2
    /\ UNCHANGED <<text, pc, raised, lines, chunkVars, piiVars, svcVars, conVars, apiVars>>

\* ParseBullets without the Spacer that closes the run
ParseBulletsNoSpacer ==
    /\ pc = "parse_scan"
    /\ i < Len(lines)
    /\ Strip(lines[i + 1]) # <<>>
    /\ ~IsHeading(lines, i)
    /\ StartsWithBullet(Strip(lines[i + 1]))
    /\ LET end == BulletRunEnd(lines, i)
       IN /\ paragraphs' = Flush(paragraphs, current_text)
                              \o BulletFlowables(lines, i, end)
          /\ i' = end
    /\ current_text' = <<>>
    /\ UNCHANGED <<text, pc, raised, lines, chunkVars, piiVars, svcVars, conVars, apiVars>>

\* lines 126-144: a run of bullet lines
ParseBullets ==
    /\ pc = "parse_scan"
    /\ i < Len(lines)
    /\ Strip(lines[i + 1]) # <<>>
    /\ ~IsHeading(lines, i)
    /\ StartsWithBullet(Strip(lines[i + 1]))
    /\ LET end == BulletRunEnd(lines, i)
       IN /\ paragraphs' = Flush(paragraphs, current_text)
                              \o BulletFlowables(lines, i, end)
                              \o <<Spacer(1, 6)>>
          /\ i' = end
    /\ current_text' = <<>>
    /\ UNCHANGED <<text, pc, raised, lines, chunkVars, piiVars, svcVars, conVars, apiVars>>

\* lines 147-165: a run of numbered lines
ParseNumbered ==
    /\ pc = "parse_scan"
    /\ i < Len(lines)
    /\ Strip(lines[i + 1]) # <<>>
    /\ ~IsHeading(lines, i)
    /\ ~StartsWithBullet(Strip(lines[i + 1]))
    /\ MatchNumbered(Strip(lines[i + 1]))
    /\ LET end == NumberedRunEnd(lines, i)
       IN /\ paragraphs' = Flush(paragraphs, current_text)
                              \o NumberedFlowables(lines, i, end)
                              \o <<Spacer(1, 6)>>
          /\ i' = end
    /\ current_text' = <<>>
    /\ UNCHANGED <<text, pc, raised, lines, chunkVars, piiVars, svcVars, conVars, apiVars>>

\* ParsePlain that keeps the line untrimmed
ParsePlainUntrimmed ==
    /\ pc = "parse_scan"
    /\ i < Len(lines)
    /\ Strip(lines[i + 1]) # <<>>
    /\ ~IsHeading(lines, i)
    /\ ~StartsWithBullet(Strip(lines[i + 1]))
    /\ ~MatchNumbered(Strip(lines[i + 1]))
    /\ current_text' = Append(current_text, lines[i + 1])
    /\ i' = i + 1
    /\ UNCHANGED <<text, pc, raised, lines, paragraphs, chunkVars, piiVars, svcVars, conVars, apiVars>>

\* lines 167-168: plain text line
ParsePlain ==
    /\ pc = "parse_scan"
    /\ i < Len(lines)
    /\ Strip(lines[i + 1]) # <<>>
    /\ ~IsHeading(lines, i)
    /\ ~StartsWithBullet(Strip(lines[i + 1]))
    /\ ~MatchNumbered(Strip(lines[i + 1]))
    /\ current_text' = Append(current_text, Strip(lines[i + 1]))
    /\ i' = i + 1
    /\ UNCHANGED <<text, pc, raised, lines, paragraphs, chunkVars, piiVars, svcVars, conVars, apiVars>>

\* lines 171-174: end of the scan
ParseReturn ==
    /\ pc = "parse_scan"
    /\ ~(i < Len(lines))
    /\ paragraphs' = Flush(paragraphs, current_text)
    /\ pc' = "parse_done"
    /\ UNCHANGED <<text, raised, lines, i, current_text, chunkVars, piiVars, svcVars, conVars, apiVars>>

NextParse ==
    \/ ParseCall
    \/ ParseBlank
    \/ ParseHeading
    \/ ParseBullets
    \/ ParseNumbered
    \/ ParsePlain
    \/ ParseReturn

SpecParse == InitParse /\ [][NextParse]_vars

SpecParseFair == SpecParse /\ WF_vars(NextParse)

\* the routine as a function of its argument: the scan loop of lines 104-174
RECURSIVE ScanFrom(_, _, _, _)
ScanFrom(ls, idx, paras, cur) ==
    IF ~(idx < Len(ls)) THEN Flush(paras, cur)
    ELSE LET line == Strip(ls[idx + 1]) IN
         IF line = <<>> THEN ScanFrom(ls, idx + 1, Flush(paras, cur), <<>>)
         ELSE IF IsHeading(ls, idx)
         THEN ScanFrom(ls, idx + 2,
                       Flush(paras, cur)
                           \o <<Paragraph(line, "SubsectionTitle"), Spacer(1, 10)>>,
                       <<>>)
         ELSE IF StartsWithBullet(line)
         THEN ScanFrom(ls, BulletRunEnd(ls, idx),
                       Flush(paras, cur)
                           \o BulletFlowables(ls, idx, BulletRunEnd(ls, idx))
                           \o <<Spacer(1, 6)>>,
                       <<>>)
         ELSE IF MatchNumbered(line)
         THEN ScanFrom(ls, NumberedRunEnd(ls, idx),
                       Flush(paras, cur)
                           \o NumberedFlowables(ls, idx, NumberedRunEnd(ls, idx))
                           \o <<Spacer(1, 6)>>,
                       <<>>)
         ELSE ScanFrom(ls, idx + 1, paras, Append(cur, line))

FormatSummary(t) == ScanFrom(SplitOn(t, "\n"), 0, <<>>, <<>>)

(***************************************************************************)
(* The layout blocks the emitted flowables stand for                       *)
(***************************************************************************)
HeadingBlock(t) == [type |-> "Heading", text |-> t]
ParagraphBlock(t) == [type |-> "Paragraph", text |-> t]
SpacerBlock == [type |-> "Spacer"]
BulletListBlock(items) == [type |-> "BulletList", items |-> items]
NumberedListBlock(items) == [type |-> "NumberedList", items |-> items]
MixedListBlock(items) == [type |-> "MixedList", items |-> items]

IsListItem(f) == f.kind = "Paragraph" /\ f.style = "ListItem"
IsBulletItem(f) == IsListItem(f) /\ StartsWithBullet(f.text)
IsNumberedItem(f) == IsListItem(f) /\ ~StartsWithBullet(f.text)

\* index of the last flowable of the run of ListItem paragraphs starting at k
RECURSIVE ListItemRunLast(_, _)
ListItemRunLast(fs, k) ==
    IF k < Len(fs) /\ IsListItem(fs[k + 1]) THEN ListItemRunLast(fs, k + 1) ELSE k

\* a maximal run of ListItem paragraphs is one list block
ListBlock(run) ==
    IF \A k \in 1..Len(run) : IsBulletItem(run[k])
    THEN BulletListBlock([k \in 1..Len(run) |-> SliceFrom(run[k].text, 2)])
    ELSE IF \A k \in 1..Len(run) : IsNumberedItem(run[k])
    THEN NumberedListBlock([k \in 1..Len(run) |-> run[k].text])
    ELSE MixedListBlock([k \in 1..Len(run) |-> run[k].text])

RECURSIVE BlocksFrom(_, _)
BlocksFrom(fs, k) ==
    IF k > Len(fs) THEN <<>>
    ELSE IF fs[k].kind = "Spacer" THEN <<SpacerBlock>> \o BlocksFrom(fs, k + 1)
    ELSE IF fs[k].style = "SubsectionTitle"
    THEN <<HeadingBlock(fs[k].text)>> \o BlocksFrom(fs, k + 1)
    ELSE IF fs[k].style = "NormalText"
    THEN <<ParagraphBlock(fs[k].text)>> \o BlocksFrom(fs, k + 1)
    ELSE <<ListBlock(SubSeq(fs, k, ListItemRunLast(fs, k)))>>
             \o BlocksFrom(fs, ListItemRunLast(fs, k) + 1)

Blocks(fs) == BlocksFrom(fs, 1)

\* C4: parse of the sample text yields Heading('Overview'), Spacer,
\* Paragraph('This is a test.'), BulletList(['first','second']), Spacer,
\* NumberedList(['1. one','2. two']), Spacer.
C4_SampleAsStated ==
    (pc = "parse_done" /\ text = SampleSummary)
        => Blocks(paragraphs) =
              << HeadingBlock(Chars("Overview")), SpacerBlock,
                 ParagraphBlock(Chars("This is a test.")),
                 BulletListBlock(<<Chars("first"), Chars("second")>>), SpacerBlock,
                 NumberedListBlock(<<Chars("1. one"), Chars("2. two")>>), SpacerBlock >>

\* C4 (amended): parse of the sample text yields Heading('Overview'), Spacer,
\* Heading('This is a test.'), Spacer, BulletList(['first','second']), Spacer,
\* NumberedList(['1. one','2. two']), Spacer: the line 'This is a test.' is
\* followed by a blank line and is emitted as a Heading with its Spacer.
C4_SampleAmended ==
    (pc = "parse_done" /\ text = SampleSummary)
        => Blocks(paragraphs) =
              << HeadingBlock(Chars("Overview")), SpacerBlock,
                 HeadingBlock(Chars("This is a test.")), SpacerBlock,
                 BulletListBlock(<<Chars("first"), Chars("second")>>), SpacerBlock,
                 NumberedListBlock(<<Chars("1. one"), Chars("2. two")>>), SpacerBlock >>

C4_Witness == pc = "parse_done" /\ text = SampleSummary /\ Len(paragraphs) = 10

FlowableLine(f) == IF f.kind = "Spacer" THEN <<>> ELSE f.text

Render(fs) == Join([k \in 1..Len(fs) |-> FlowableLine(fs[k])], <<"\n">>)

\* C6: parsing the re-serialization of the parser's output yields the same
\* output again.
C6_Idempotent ==
    pc = "parse_done" => FormatSummary(Render(paragraphs)) = paragraphs

\* C6 witness: an output with a heading, a paragraph and a list
C6_Witness ==
    /\ pc = "parse_done"
    /\ \E k \in 1..Len(paragraphs) :
          paragraphs[k].kind = "Paragraph" /\ paragraphs[k].style = "SubsectionTitle"
    /\ \E k \in 1..Len(paragraphs) :
          paragraphs[k].kind = "Paragraph" /\ paragraphs[k].style = "NormalText"
    /\ \E k \in 1..Len(paragraphs) : IsListItem(paragraphs[k])

\* C9: a bullet line immediately followed by a numbered line gives a
\* BulletList closed by a Spacer and then a new NumberedList closed by a
\* Spacer, and no list block of the output mixes bullet and numbered items.
C9_NoMergingAcrossTypes ==
    pc = "parse_done" =>
        LET B == Blocks(paragraphs) IN
        /\ \A j \in 1..Len(B) : B[j].type # "MixedList"
        /\ \A k \in 1..(Len(lines) - 1) :
              (StartsWithBullet(Strip(lines[k])) /\ MatchNumbered(Strip(lines[k + 1])))
                  => \E j \in 1..(Len(B) - 3) :
                        /\ B[j].type = "BulletList"
                        /\ B[j].items[Len(B[j].items)] = BulletPoint(lines[k])
                        /\ B[j + 1] = SpacerBlock
                        /\ B[j + 2].type = "NumberedList"
                        /\ B[j + 2].items[1] = Strip(lines[k + 1])
                        /\ B[j + 3] = SpacerBlock

\* C9 witness: a returned scan of a text with a bullet line directly followed
\* by a numbered line
C9_Witness ==
    /\ pc = "parse_done"
    /\ \E k \in 1..(Len(lines) - 1) :
          StartsWithBullet(Strip(lines[k])) /\ MatchNumbered(Strip(lines[k + 1]))

\* C10: the empty string, and any text of blank lines only, parses to the
\* empty sequence.
C10_BlankInputEmpty ==
    (pc = "parse_done" /\ \A k \in 1..Len(text) : IsSpace(text[k]))
        => paragraphs = <<>>

\* C10 witness: a returned scan of several empty and whitespace-only lines
C10_Witness ==
    /\ pc = "parse_done"
    /\ Len(lines) >= 3
    /\ \A k \in 1..Len(text) : IsSpace(text[k])
    /\ \E k \in 1..Len(lines) : lines[k] # <<>>
    /\ \E k \in 1..Len(lines) : lines[k] = <<>>

\* the line classes of the scan, on the raw line
BlankLine(raw) == Strip(raw) = <<>>

PlainLine(raw) ==
    /\ Strip(raw) # <<>>
    /\ ~StartsWithBullet(Strip(raw))
    /\ ~MatchNumbered(Strip(raw))

\* C14: whenever the scan pointer is at a non-blank line that is neither a
\* bullet line nor a numbered line and whose next line is blank, the step
\* appends the pending text (if any) as one Paragraph, then Heading(trimmed
\* line), then a Spacer, empties the pending text and advances the pointer
\* by exactly two lines.
C14_HeadingRule ==
    [][ (/\ pc = "parse_scan"
         /\ i < Len(lines) - 1
         /\ PlainLine(lines[i + 1])
         /\ BlankLine(lines[i + 2]))
        => /\ paragraphs' =
                 paragraphs
                   \o (IF current_text = <<>> THEN <<>>
                       ELSE <<Paragraph(Join(current_text, <<" ">>), "NormalText")>>)
                   \o <<Paragraph(Strip(lines[i + 1]), "SubsectionTitle")>>
                   \o <<Spacer(1, 10)>>
           /\ current_text' = <<>>
           /\ i' = i + 2
      ]_vars

\* C14 witness: the scan has just taken the heading step with pending text:
\* the output ends with the flushed Paragraph, the Heading and its Spacer, and
\* the pointer is past the blank line that follows the heading line
C14_Witness ==
    /\ pc = "parse_scan"
    /\ i >= 3
    /\ BlankLine(lines[i])
    /\ PlainLine(lines[i - 1])
    /\ PlainLine(lines[i - 2])
    /\ current_text = <<>>
    /\ Len(paragraphs) >= 3
    /\ paragraphs[Len(paragraphs) - 2] = Paragraph(Strip(lines[i - 2]), "NormalText")
    /\ paragraphs[Len(paragraphs) - 1] = Paragraph(Strip(lines[i - 1]), "SubsectionTitle")
    /\ paragraphs[Len(paragraphs)] = Spacer(1, 10)

\* the flowables a step has appended to the output
Emitted(before, after) == SubSeq(after, Len(before) + 1, Len(after))

\* seg is one of the space-joined segments of the paragraph text t
IsSegmentOf(seg, t) ==
    \E a \in 1..Len(t) :
        /\ a + Len(seg) - 1 <= Len(t)
        /\ SubSeq(t, a, a + Len(seg) - 1) = seg
        /\ a = 1 \/ t[a - 1] = " "
        /\ a + Len(seg) - 1 = Len(t) \/ t[a + Len(seg)] = " "

\* C15: a line is emitted as a Heading only by the lookahead rule: a step
\* that emits a Heading is at a line whose next line is blank and emits that
\* line; at a non-blank line whose next line is non-blank no Heading is
\* emitted, and if that line is neither a bullet nor a numbered line its
\* trimmed text joins the pending text and ends up in a Paragraph block.
C15_HeadingOnlyByLookahead ==
    /\ [][ pc = "parse_scan" =>
             LET new == Emitted(paragraphs, paragraphs') IN
             /\ \A k \in 1..Len(new) :
                   (new[k].kind = "Paragraph" /\ new[k].style = "SubsectionTitle")
                       => /\ i < Len(lines) - 1
                          /\ BlankLine(lines[i + 2])
                          /\ new[k].text = Strip(lines[i + 1])
             /\ (i < Len(lines) - 1 /\ PlainLine(lines[i + 1]) /\ ~BlankLine(lines[i + 2]))
                   => /\ new = <<>>
                      /\ current_text' = Append(current_text, Strip(lines[i + 1]))
                      /\ i' = i + 1
         ]_vars
    /\ [](pc = "parse_done" =>
             \A k \in 1..(Len(lines) - 1) :
                 (PlainLine(lines[k]) /\ ~BlankLine(lines[k + 1]))
                     => \E j \in 1..Len(paragraphs) :
                           /\ paragraphs[j].kind = "Paragraph"
                           /\ paragraphs[j].style = "NormalText"
                           /\ IsSegmentOf(Strip(lines[k]), paragraphs[j].text))

\* C15 witness: a returned scan in which two plain lines in a row became one
\* Paragraph and a later plain line followed by a blank line became a Heading
C15_Witness ==
    /\ pc = "parse_done"
    /\ \E k \in 1..(Len(lines) - 1) :
          /\ PlainLine(lines[k])
          /\ PlainLine(lines[k + 1])
          /\ \E j \in 1..Len(paragraphs) :
                paragraphs[j] = Paragraph(Strip(lines[k]) \o <<" ">> \o Strip(lines[k + 1]),
                                          "NormalText")
    /\ \E j \in 1..Len(paragraphs) :
          paragraphs[j].kind = "Paragraph" /\ paragraphs[j].style = "SubsectionTitle"

\* 1-based index of the last line of the run of plain lines that holds line a
RECURSIVE PlainRunLast(_, _)
PlainRunLast(ls, a) ==
    IF a < Len(ls) /\ PlainLine(ls[a + 1]) THEN PlainRunLast(ls, a + 1) ELSE a

\* the trimmed lines a..b joined by single spaces
JoinedLines(ls, a, b) ==
    Join([k \in 1..(b - a + 1) |-> Strip(ls[a + k - 1])], <<" ">>)

IsParagraphBlock(b) == b.type = "Paragraph"

IsTextBlock(b) == b.type \in {"Paragraph", "Heading"}

\* one Paragraph block per maximal run of plain lines, from line k on
RECURSIVE ParagraphPerRun(_, _)
ParagraphPerRun(ls, k) ==
    IF k > Len(ls) THEN <<>>
    ELSE IF ~PlainLine(ls[k]) THEN ParagraphPerRun(ls, k + 1)
    ELSE <<ParagraphBlock(JoinedLines(ls, k, PlainRunLast(ls, k)))>>
             \o ParagraphPerRun(ls, PlainRunLast(ls, k) + 1)

\* per maximal run of plain lines a..b, from line a on: a run ended by a blank
\* line gives the Paragraph of lines a..b-1 (when b > a) and the Heading of
\* line b; any other run gives the Paragraph of lines a..b
RECURSIVE TextBlocksPerRun(_, _)
TextBlocksPerRun(ls, a) ==
    IF a > Len(ls) THEN <<>>
    ELSE IF ~PlainLine(ls[a]) THEN TextBlocksPerRun(ls, a + 1)
    ELSE LET b == PlainRunLast(ls, a) IN
         (IF b < Len(ls) /\ BlankLine(ls[b + 1])
          THEN (IF b > a THEN <<ParagraphBlock(JoinedLines(ls, a, b - 1))>> ELSE <<>>)
                   \o <<HeadingBlock(Strip(ls[b]))>>
          ELSE <<ParagraphBlock(JoinedLines(ls, a, b))>>)
             \o TextBlocksPerRun(ls, b + 1)

\* C16: every maximal run of consecutive plain lines, whether ended by a
\* blank line, a list line or the end of input, produces exactly one
\* Paragraph block, whose text is the trimmed lines of the run in order
\* joined by single spaces.
C16_OneParagraphPerRun ==
    pc = "parse_done" =>
        SelectSeq(Blocks(paragraphs), IsParagraphBlock) = ParagraphPerRun(lines, 1)

\* C16 (amended): a maximal run of consecutive plain lines ended by a list
\* line or by the end of input produces exactly one Paragraph block of all its
\* trimmed lines joined by single spaces; a run ended by a blank line produces
\* a Heading block of its last trimmed line, preceded, when the run has more
\* than one line, by exactly one Paragraph block of the other trimmed lines
\* joined by single spaces.
C16_RunEndedByBlankGivesHeading ==
    pc = "parse_done" =>
        SelectSeq(Blocks(paragraphs), IsTextBlock) = TextBlocksPerRun(lines, 1)

\* C16 witness: a returned scan with a run of two plain lines ended by a
\* blank line (Paragraph of the first, Heading of the second) and a run ended
\* by the end of input
C16_Witness ==
    /\ pc = "parse_done"
    /\ Len(lines) >= 4
    /\ PlainLine(lines[1])
    /\ PlainLine(lines[2])
    /\ BlankLine(lines[3])
    /\ PlainLine(lines[Len(lines)])
    /\ Blocks(paragraphs) =
          << ParagraphBlock(Strip(lines[1])), HeadingBlock(Strip(lines[2])),
             SpacerBlock, ParagraphBlock(Strip(lines[Len(lines)])) >>

\* C20: whenever the scan pointer is at a blank line the pending text is
\* empty, so the blank-line step emits nothing; every Paragraph of the output
\* is directly followed by a Heading or a list item, or is the last flowable
\* of the returned output; and no line that is directly followed by a blank
\* line is ever added to the pending text.
C20_NoPendingTextAtBlankLine ==
    /\ [](( /\ pc = "parse_scan"
            /\ i < Len(lines)
            /\ BlankLine(lines[i + 1])) => current_text = <<>>)
    /\ [][( /\ pc = "parse_scan"
            /\ i < Len(lines)
            /\ BlankLine(lines[i + 1])) => paragraphs' = paragraphs]_vars
    /\ [](\A k \in 1..Len(paragraphs) :
            (paragraphs[k].kind = "Paragraph" /\ paragraphs[k].style = "NormalText")
                => \/ k = Len(paragraphs) /\ pc = "parse_done"
                   \/ /\ k < Len(paragraphs)
                      /\ paragraphs[k + 1].kind = "Paragraph"
                      /\ paragraphs[k + 1].style \in {"SubsectionTitle", "ListItem"})
    /\ [][(pc = "parse_scan" /\ current_text' # current_text /\ current_text' # <<>>)
            => /\ i < Len(lines)
               /\ current_text' = Append(current_text, Strip(lines[i + 1]))
               /\ ~(i < Len(lines) - 1 /\ BlankLine(lines[i + 2]))]_vars

\* C20 witness: the scan pointer is at a blank line that follows a heading's
\* blank line, and the text pending before the heading was flushed with it
C20_Witness ==
    /\ pc = "parse_scan"
    /\ i >= 3
    /\ i < Len(lines)
    /\ BlankLine(lines[i + 1])
    /\ PlainLine(lines[i - 1])
    /\ PlainLine(lines[i - 2])
    /\ current_text = <<>>
    /\ \E k \in 1..Len(paragraphs) :
          paragraphs[k].kind = "Paragraph" /\ paragraphs[k].style = "NormalText"

\* 1-based index of the last line of the run of bullet lines that holds line a
RECURSIVE BulletRunLast(_, _)
BulletRunLast(ls, a) ==
    IF a < Len(ls) /\ StartsWithBullet(Strip(ls[a + 1]))
    THEN BulletRunLast(ls, a + 1)
    ELSE a

\* a bullet line with only the marker and the whitespace after it removed
WithoutMarker(raw) == LStrip(SliceFrom(Strip(raw), 1))

\* one BulletList block and one Spacer per maximal run of bullet lines, from
\* line k on
RECURSIVE BulletListPerRun(_, _)
BulletListPerRun(ls, k) ==
    IF k > Len(ls) THEN <<>>
    ELSE IF ~StartsWithBullet(Strip(ls[k])) THEN BulletListPerRun(ls, k + 1)
    ELSE LET b == BulletRunLast(ls, k) IN
         <<BulletListBlock([j \in 1..(b - k + 1) |-> WithoutMarker(ls[k + j - 1])]),
           SpacerBlock>>
             \o BulletListPerRun(ls, b + 1)

\* the BulletList blocks of the output, each with the block that follows it
RECURSIVE BulletListsWithNext(_, _)
BulletListsWithNext(B, k) ==
    IF k > Len(B) THEN <<>>
    ELSE IF B[k].type # "BulletList" THEN BulletListsWithNext(B, k + 1)
    ELSE <<B[k]>> \o (IF k < Len(B) THEN <<B[k + 1]>> ELSE <<>>)
             \o BulletListsWithNext(B, k + 1)

\* C17: every maximal run of consecutive bullet lines becomes one bullet-list
\* block followed by one Spacer, with one item per line in order, each item
\* being its line with only the bullet marker and the whitespace after it
\* removed, whether or not a space follows the marker.
C17_BulletItemsKeepText ==
    pc = "parse_done" =>
        BulletListsWithNext(Blocks(paragraphs), 1)
            = BulletListPerRun(lines, 1)

\* 1-based index of the last line of the run of numbered lines that holds line a
RECURSIVE NumberedRunLast(_, _)
NumberedRunLast(ls, a) ==
    IF a < Len(ls) /\ MatchNumbered(Strip(ls[a + 1]))
    THEN NumberedRunLast(ls, a + 1)
    ELSE a

\* one NumberedList block and one Spacer per maximal run of numbered lines,
\* from line k on, the items being the trimmed lines
RECURSIVE NumberedListPerRun(_, _)
NumberedListPerRun(ls, k) ==
    IF k > Len(ls) THEN <<>>
    ELSE IF ~MatchNumbered(Strip(ls[k])) THEN NumberedListPerRun(ls, k + 1)
    ELSE LET b == NumberedRunLast(ls, k) IN
         <<NumberedListBlock([j \in 1..(b - k + 1) |-> Strip(ls[k + j - 1])]),
           SpacerBlock>>
             \o NumberedListPerRun(ls, b + 1)

\* the NumberedList blocks of the output, each with the block that follows it
RECURSIVE NumberedListsWithNext(_, _)
NumberedListsWithNext(B, k) ==
    IF k > Len(B) THEN <<>>
    ELSE IF B[k].type # "NumberedList" THEN NumberedListsWithNext(B, k + 1)
    ELSE <<B[k]>> \o (IF k < Len(B) THEN <<B[k + 1]>> ELSE <<>>)
             \o NumberedListsWithNext(B, k + 1)

\* C18: every maximal run of consecutive numbered lines becomes one
\* numbered-list block followed by one Spacer, with one item per line in
\* order, each item being the trimmed line with its 'N.' prefix; numbered
\* lines separated by a blank line are in separate numbered-list blocks.
C18_NumberedRuns ==
    pc = "parse_done" =>
        NumberedListsWithNext(Blocks(paragraphs), 1) = NumberedListPerRun(lines, 1)

\* C18 witness: a returned scan of two numbered lines in a row, a blank line
\* and another numbered line: a list of two items and a list of one item
C18_Witness ==
    /\ pc = "parse_done"
    /\ Len(lines) = 4
    /\ MatchNumbered(Strip(lines[1]))
    /\ MatchNumbered(Strip(lines[2]))
    /\ BlankLine(lines[3])
    /\ MatchNumbered(Strip(lines[4]))
    /\ Blocks(paragraphs) =
          << NumberedListBlock(<<Strip(lines[1]), Strip(lines[2])>>), SpacerBlock,
             NumberedListBlock(<<Strip(lines[4])>>), SpacerBlock >>

(***************************************************************************)
(* DocumentProcessor._extract_pii                                          *)
(***************************************************************************)
Lower == {Chars("abcdefghijklmnopqrstuvwxyz")[k] : k \in 1..26}
Upper == {Chars("ABCDEFGHIJKLMNOPQRSTUVWXYZ")[k] : k \in 1..26}
Digits == {c \in {Chars("0123456789")[k] : k \in 1..10} : IsDigit(c)}
Spaces == {c \in {" ", "\t", "\n", "\r"} : IsSpace(c)}

\* \w
IsWordChar(c) == c \in Lower \cup Upper \cup Digits \cup {"_"}

\* \b after the first p characters of t
AtBoundary(t, p) ==
    LET before == p >= 1 /\ IsWordChar(t[p])
        after == p < Len(t) /\ IsWordChar(t[p + 1])
    IN before # after

\* pattern items: \b, and a character class repeated {min,max} (greedy)
Boundary == [type |-> "boundary"]
Rep(cls, min, max) == [type |-> "class", cls |-> cls, min |-> min, max |-> max, plus |-> FALSE]
OneOrMore(cls) == [type |-> "class", cls |-> cls, min |-> 1, max |-> 1, plus |-> TRUE]
AtLeast(cls, min) == [type |-> "class", cls |-> cls, min |-> min, max |-> min, plus |-> TRUE]

\* number of consecutive characters of class cls after the first p of t
RECURSIVE RunLen(_, _, _)
RunLen(t, p, cls) ==
    IF p < Len(t) /\ t[p + 1] \in cls THEN 1 + RunLen(t, p + 1, cls) ELSE 0

\* the backtracking match of items[k..] after the first p characters of t:
\* the number of characters before the end of the match, or -1
RECURSIVE MatchFrom(_, _, _, _)
RECURSIVE TryCounts(_, _, _, _, _)
MatchFrom(t, items, k, p) ==
    IF k > Len(items) THEN p
    ELSE IF items[k].type = "boundary"
    THEN IF AtBoundary(t, p) THEN MatchFrom(t, items, k + 1, p) ELSE -1
    ELSE LET run == RunLen(t, p, items[k].cls)
             most == IF items[k].plus \/ run <= items[k].max THEN run ELSE items[k].max
         IN TryCounts(t, items, k, p, most)

TryCounts(t, items, k, p, n) ==
    IF n < items[k].min THEN -1
    ELSE LET r == MatchFrom(t, items, k + 1, p + n)
         IN IF r # -1 THEN r ELSE TryCounts(t, items, k, p, n - 1)

\* a pattern is a sequence of alternatives tried in order at each position
RECURSIVE MatchAlternatives(_, _, _, _)
MatchAlternatives(t, alts, a, p) ==
    IF a > Len(alts) THEN -1
    ELSE LET r == MatchFrom(t, alts[a], 1, p)
         IN IF r # -1 THEN r ELSE MatchAlternatives(t, alts, a + 1, p)

MatchAt(t, alts, p) == MatchAlternatives(t, alts, 1, p)

\* re.finditer: the first position from p on at which the pattern matches,
\* or -1
RECURSIVE SearchFrom(_, _, _)
SearchFrom(t, alts, p) ==
    IF p > Len(t) THEN -1
    ELSE IF MatchAt(t, alts, p) # -1 THEN p
    ELSE SearchFrom(t, alts, p + 1)

\* line 15: \b[A-Za-z0-9._%+-]+@[A-Za-z0-9.-]+\.[A-Z|a-z]{2,}\b
EmailPattern ==
    << << Boundary,
          OneOrMore(Lower \cup Upper \cup Digits \cup {".", "_", "%", "+", "-"}),
          Rep({"@"}, 1, 1),
          OneOrMore(Lower \cup Upper \cup Digits \cup {".", "-"}),
          Rep({"."}, 1, 1),
          AtLeast(Upper \cup {"|"} \cup Lower, 2),
          Boundary >> >>

PhoneTail ==
    << Rep({"("}, 0, 1), Rep(Digits, 3, 3), Rep({")"}, 0, 1),
       Rep(Spaces \cup {".", "-"}, 0, 1), Rep(Digits, 3, 3),
       Rep(Spaces \cup {".", "-"}, 0, 1), Rep(Digits, 4, 4), Boundary >>

\* line 16: \b(\+\d{1,2}\s?)?\(?\d{3}\)?[\s.-]?\d{3}[\s.-]?\d{4}\b
\* (the optional group is tried present first, then absent)
PhonePattern ==
    << <<Boundary, Rep({"+"}, 1, 1), Rep(Digits, 1, 2), Rep(Spaces, 0, 1)>> \o PhoneTail,
       <<Boundary>> \o PhoneTail >>

\* line 17: \b\d{3}-\d{2}-\d{4}\b
SsnPattern ==
    << << Boundary, Rep(Digits, 3, 3), Rep({"-"}, 1, 1), Rep(Digits, 2, 2),
          Rep({"-"}, 1, 1), Rep(Digits, 4, 4), Boundary >> >>

\* CreditCardPattern without the optional separators between the groups
CreditCardPatternNoSeparators ==
    << << Boundary, Rep(Digits, 4, 4), Rep(Digits, 4, 4), Rep(Digits, 4, 4),
          Rep(Digits, 4, 4), Boundary >> >>

\* line 18: \b\d{4}[- ]?\d{4}[- ]?\d{4}[- ]?\d{4}\b
CreditCardPattern ==
    << << Boundary, Rep(Digits, 4, 4), Rep({"-", " "}, 0, 1), Rep(Digits, 4, 4),
          Rep({"-", " "}, 0, 1), Rep(Digits, 4, 4), Rep({"-", " "}, 0, 1),
          Rep(Digits, 4, 4), Boundary >> >>

\* lines 14-19: self.pii_patterns, in insertion order
pii_patterns ==
    << [pii_type |-> "email", pattern |-> EmailPattern],
       [pii_type |-> "phone", pattern |-> PhonePattern],
       [pii_type |-> "ssn", pattern |-> SsnPattern],
       [pii_type |-> "credit_card", pattern |-> CreditCardPattern] >>

SamplePiiText ==
    Chars("Contact: a@b.com or 555-123-4567, SSN 123-45-6789, card 4111 1111 1111 1111")

\* input texts: up to MaxPiiPieces pieces, and the sample text
PiiPieces ==
    { Chars("a@b.com"), Chars("x@y.c|d"), Chars("555-123-4567"), Chars("123-45-6789"),
      Chars("4111 1111 1111 1111"), Chars(" "), Chars("1") }

PiiTexts ==
    {Join(ps, <<>>) : ps \in SeqsUpTo(PiiPieces, MaxPiiPieces)} \cup {SamplePiiText}

InitPii ==
    /\ text \in PiiTexts
    /\ pc = "pii_call"
    /\ raised = "none"
    /\ findings = <<>>
    /\ pii_k = 0
    /\ matches = <<>>
    /\ pos = 0
    /\ files = NoFiles
    /\ op = NoCall
    /\ ret = NoValue
    /\ saved = NoFiles
    /\ frames = NoFrames
    /\ instances = NoInstances
    /\ ncalls = NoCalls
    /\ request = NoRequest
    /\ reply = NoReply
    /\ reports = {}
    /\ trace = <<>>
    /\ max_chunk_size = 0
    /\ words = <<>>
    /\ wi = 0
    /\ chunks = <<>>
    /\ current_chunk = <<>>
    /\ current_size = 0
    /\ lines = <<>>
    /\ i = 0
    /\ paragraphs = <<>>
    /\ current_text = <<>>

\* line 99: findings = {}
PiiCall ==
    /\ pc = "pii_call"
    /\ findings' = [key \in {} |-> <<>>]
    /\ pii_k' = 1
    /\ matches' = <<>>
    /\ pos' = 0
    /\ pc' = "pii_scan"
    /\ UNCHANGED <<text, raised, chunkVars, parseVars, svcVars, conVars, apiVars>>

\* lines 102-103: re.finditer yields the next match, match.group() is kept
PiiMatch ==
    /\ pc = "pii_scan"
    /\ pii_k <= Len(pii_patterns)
    /\ LET pattern == pii_patterns[pii_k].pattern
           start == SearchFrom(text, pattern, pos)
       IN /\ start # -1
          /\ matches' = Append(matches,
                               SubSeq(text, start + 1, MatchAt(text, pattern, start)))
          /\ pos' = MatchAt(text, pattern, start)
    /\ UNCHANGED <<text, pc, raised, findings, pii_k, chunkVars, parseVars, svcVars, conVars, apiVars>>

\* PiiStore that records a category only when it has matches
PiiStoreSkipsEmpty ==
    /\ pc = "pii_scan"
    /\ pii_k <= Len(pii_patterns)
    /\ SearchFrom(text, pii_patterns[pii_k].pattern, pos) = -1
    /\ findings' = IF matches = <<>> THEN findings
                   ELSE [key \in DOMAIN findings \cup {pii_patterns[pii_k].pii_type} |->
                           IF key = pii_patterns[pii_k].pii_type
                           THEN matches ELSE findings[key]]
    /\ pii_k' = pii_k + 1
    /\ matches' = <<>>
    /\ pos' = 0
    /\ UNCHANGED <<text, pc, raised, chunkVars, parseVars, svcVars, conVars, apiVars>>

\* line 103: the iterator is exhausted, findings[pii_type] is assigned
PiiStore ==
    /\ pc = "pii_scan"
    /\ pii_k <= Len(pii_patterns)
    /\ SearchFrom(text, pii_patterns[pii_k].pattern, pos) = -1
    /\ findings' = [key \in DOMAIN findings \cup {pii_patterns[pii_k].pii_type} |->
                        IF key = pii_patterns[pii_k].pii_type
                        THEN matches ELSE findings[key]]
    /\ pii_k' = pii_k + 1
    /\ matches' = <<>>
    /\ pos' = 0
    /\ UNCHANGED <<text, pc, raised, chunkVars, parseVars, svcVars, conVars, apiVars>>

\* line 105: return findings
PiiReturn ==
    /\ pc = "pii_scan"
    /\ pii_k > Len(pii_patterns)
    /\ pc' = "pii_done"
    /\ UNCHANGED <<text, raised, chunkVars, parseVars, piiVars, svcVars, conVars, apiVars>>

NextPii == PiiCall \/ PiiMatch \/ PiiStore \/ PiiReturn

SpecPii == InitPii /\ [][NextPii]_vars

PiiKeys == {"email", "phone", "ssn", "credit_card"}

\* C7: the result of a scan has exactly the keys email, phone, ssn and
\* credit_card, each mapped to a list, a category without a match to the empty
\* list, and the scan does not raise.
C7_AllKeysPresent ==
    pc = "pii_done" =>
        /\ raised = "none"
        /\ DOMAIN findings = PiiKeys
        /\ \A key \in PiiKeys : DOMAIN findings[key] = 1..Len(findings[key])
        /\ \A k \in 1..Len(pii_patterns) :
              SearchFrom(text, pii_patterns[k].pattern, 0) = -1
                  => findings[pii_patterns[k].pii_type] = <<>>

\* C7 witness: a finished scan with matches in one category and none in another
C7_Witness ==
    /\ pc = "pii_done"
    /\ \E key \in DOMAIN findings : findings[key] = <<>>
    /\ \E key \in DOMAIN findings : findings[key] # <<>>

\* C8: the scan of the sample text has exactly one match per category:
\* 'a@b.com', '555-123-4567', '123-45-6789' and '4111 1111 1111 1111'.
C8_SampleScan ==
    (pc = "pii_done" /\ text = SamplePiiText)
        => findings = [key \in PiiKeys |->
                          CASE key = "email" -> <<Chars("a@b.com")>>
                            [] key = "phone" -> <<Chars("555-123-4567")>>
                            [] key = "ssn" -> <<Chars("123-45-6789")>>
                            [] key = "credit_card" -> <<Chars("4111 1111 1111 1111")>>]

C8_Witness ==
    /\ pc = "pii_done"
    /\ text = SamplePiiText
    /\ \A key \in PiiKeys : Len(findings[key]) = 1

\* m is local-part '@' domain '.' top-level label, the label of two or more
\* letters A-Z/a-z only
EmailWithLetterLabel(m) ==
    \E at \in 2..Len(m), dot \in 3..Len(m) :
        /\ at + 1 < dot
        /\ dot + 2 <= Len(m)
        /\ m[at] = "@"
        /\ m[dot] = "."
        /\ \A k \in 1..(at - 1) :
              m[k] \in Lower \cup Upper \cup Digits \cup {".", "_", "%", "+", "-"}
        /\ \A k \in (at + 1)..(dot - 1) :
              m[k] \in Lower \cup Upper \cup Digits \cup {".", "-"}
        /\ \A k \in (dot + 1)..Len(m) : m[k] \in Lower \cup Upper

\* C19: every substring reported under the email key is local-part '@'
\* domain '.' top-level label with a top-level label of two or more letters
\* only; no reported email has a '|' in its top-level label.
C19_EmailLabelLettersOnly ==
    (pc = "pii_done" /\ "email" \in DOMAIN findings) =>
        \A k \in 1..Len(findings["email"]) :
            EmailWithLetterLabel(findings["email"][k])

(***************************************************************************)
(* DocumentStorage (app/services/document_storage.py) and                  *)
(* OpenAIService.analyze_sentiment                                         *)
(***************************************************************************)
\* Python values held in a content dict
PyStr(v) == [py |-> "str", v |-> <<v>>]
PyTuple(v) == [py |-> "tuple", v |-> v]
PyList(v) == [py |-> "list", v |-> v]
PyObject == [py |-> "object", v |-> <<>>]

\* the content dicts handed to save_document: empty, without 'text', two
\* plain records, one holding a tuple (image metadata 'size') and one holding
\* an object json cannot encode
Contents ==
    { [key \in {} |-> PyStr("")],
      [summary |-> PyStr("s")],
      [text |-> PyStr("t1")],
      [text |-> PyStr("t2")],
      [text |-> PyStr("t1"), size |-> PyTuple(<<"1", "2">>)],
      [text |-> PyStr("t1"), extra |-> PyObject] }

\* json.dump raises TypeError on a value it cannot encode
Serializable(content) == \A key \in DOMAIN content : content[key].py # "object"

\* json.load(json.dump(content)): a tuple is written as an array and read
\* back as a list
JsonRoundTrip(content) ==
    [key \in DOMAIN content |->
        IF content[key].py = "tuple" THEN PyList(content[key].v) ELSE content[key]]

Raised(e) == [kind |-> "raise", error |-> e]
Returned(v) == [kind |-> "value", value |-> v]
ReturnedNone == [kind |-> "None"]
ReturnedBool(b) == [kind |-> "bool", value |-> b]

Call(name, document_id, failed) ==
    [name |-> name, document_id |-> document_id, failed |-> failed]

InitServices ==
    /\ files = NoFiles
    /\ op = NoCall
    /\ ret = NoValue
    /\ saved = NoFiles
    /\ frames = NoFrames
    /\ instances = NoInstances
    /\ ncalls = NoCalls
    /\ request = NoRequest
    /\ reply = NoReply
    /\ reports = {}
    /\ trace = <<>>
    /\ raised = "none"
    /\ pc = "serving"
    /\ text = <<>>
    /\ max_chunk_size = 0
    /\ words = <<>>
    /\ wi = 0
    /\ chunks = <<>>
    /\ current_chunk = <<>>
    /\ current_size = 0
    /\ lines = <<>>
    /\ i = 0
    /\ paragraphs = <<>>
    /\ current_text = <<>>
    /\ findings = <<>>
    /\ pii_k = 0
    /\ matches = <<>>
    /\ pos = 0

\* document_storage.py lines 17-39.  io_error: open() fails.
SaveDocument(document_id, content, io_error) ==
    /\ pc = "serving"
    /\ IF document_id = "" \/ DOMAIN content = {} \/ "text" \notin DOMAIN content
       THEN \* lines 20-25, re-raised at line 39
            /\ raised' = "ValueError"
            /\ ret' = Raised("ValueError")
            /\ op' = Call("save_document", document_id, FALSE)
            /\ UNCHANGED <<files, saved>>
       ELSE IF io_error
       THEN \* line 33 fails
            /\ raised' = "OSError"
            /\ ret' = Raised("OSError")
            /\ op' = Call("save_document", document_id, TRUE)
            /\ UNCHANGED <<files, saved>>
       ELSE IF ~Serializable(content)
       THEN \* line 33 has truncated the file, line 34 raises part-way
            /\ raised' = "TypeError"
            /\ ret' = Raised("TypeError")
            /\ op' = Call("save_document", document_id, TRUE)
            /\ files' = [files EXCEPT ![FilePath(document_id)] = Partial]
            /\ UNCHANGED saved
       ELSE \* lines 33-36
            /\ raised' = "none"
            /\ ret' = ReturnedNone
            /\ op' = Call("save_document", document_id, FALSE)
            /\ files' = [files EXCEPT
                            ![FilePath(document_id)] = JsonFile(JsonRoundTrip(content))]
            /\ saved' = [saved EXCEPT ![FilePath(document_id)] = JsonFile(content)]
    /\ UNCHANGED <<text, pc, chunkVars, parseVars, piiVars, conVars, apiVars>>

\* document_storage.py lines 41-70.  io_error: open() fails.
GetDocument(document_id, io_error) ==
    /\ pc = "serving"
    /\ raised' = "none"
    /\ IF document_id = ""
       THEN \* line 45, caught at line 68
            /\ ret' = ReturnedNone
            /\ op' = Call("get_document", document_id, FALSE)
       ELSE LET file == files[FilePath(document_id)] IN
            IF file = Absent
            THEN \* lines 50-52
                 /\ ret' = ReturnedNone
                 /\ op' = Call("get_document", document_id, FALSE)
            ELSE IF io_error \/ file = Partial
            THEN \* line 54 or 55 raises, caught at line 68
                 /\ ret' = ReturnedNone
                 /\ op' = Call("get_document", document_id, TRUE)
            ELSE IF DOMAIN file.data = {} \/ "text" \notin DOMAIN file.data
            THEN \* lines 57-63
                 /\ ret' = ReturnedNone
                 /\ op' = Call("get_document", document_id, FALSE)
            ELSE \* line 66
                 /\ ret' = Returned(file.data)
                 /\ op' = Call("get_document", document_id, FALSE)
    /\ UNCHANGED <<text, pc, files, saved, chunkVars, parseVars, piiVars, conVars, apiVars>>

\* document_storage.py lines 72-91.  io_error: unlink() fails.
DeleteDocument(document_id, io_error) ==
    /\ pc = "serving"
    /\ raised' = "none"
    /\ IF document_id = ""
       THEN \* line 76, caught at line 89
            /\ ret' = ReturnedBool(FALSE)
            /\ op' = Call("delete_document", document_id, FALSE)
            /\ UNCHANGED <<files, saved>>
       ELSE IF files[FilePath(document_id)] = Absent
       THEN \* lines 86-87
            /\ ret' = ReturnedBool(FALSE)
            /\ op' = Call("delete_document", document_id, FALSE)
            /\ files' = files
            /\ saved' = [saved EXCEPT ![FilePath(document_id)] = Absent]
       ELSE IF io_error
       THEN \* line 82 raises, caught at line 89
            /\ ret' = ReturnedBool(FALSE)
            /\ op' = Call("delete_document", document_id, TRUE)
            /\ files' = files
            /\ saved' = [saved EXCEPT ![FilePath(document_id)] = Absent]
       ELSE \* lines 82-84
            /\ ret' = ReturnedBool(TRUE)
            /\ op' = Call("delete_document", document_id, FALSE)
            /\ files' = [files EXCEPT ![FilePath(document_id)] = Absent]
            /\ saved' = [saved EXCEPT ![FilePath(document_id)] = Absent]
    /\ UNCHANGED <<text, pc, chunkVars, parseVars, piiVars, conVars, apiVars>>

\* what the completion service can answer: no choices, empty content, a JSON
\* document, prose around a JSON document, prose around braces that are not
\* JSON, prose without braces
SentimentResponses ==
    {"no_choices", "empty", "json", "prose_with_json", "prose_with_braces", "prose"}

ParsedSentiment == [sentiment |-> PyStr("positive")]
DefaultSentiment == [sentiment |-> PyStr("neutral")]

\* openai_service.py lines 195-248
AnalyzeSentiment(response) ==
    /\ pc = "serving"
    /\ IF response \in {"no_choices", "empty"}
       THEN \* lines 220-227, wrapped at line 248
            /\ raised' = "Exception"
            /\ ret' = Raised("Exception")
            /\ op' = Call("analyze_sentiment", "", TRUE)
       ELSE IF response = "json"
       THEN \* line 233
            /\ raised' = "none"
            /\ ret' = Returned(ParsedSentiment)
            /\ op' = Call("analyze_sentiment", "", FALSE)
       ELSE IF response = "prose_with_json"
       THEN \* lines 236-238
            /\ raised' = "none"
            /\ ret' = Returned(ParsedSentiment)
            /\ op' = Call("analyze_sentiment", "", FALSE)
       ELSE IF response = "prose_with_braces"
       THEN \* line 238 raises JSONDecodeError, wrapped at line 248
            /\ raised' = "Exception"
            /\ ret' = Raised("Exception")
            /\ op' = Call("analyze_sentiment", "", TRUE)
       ELSE \* lines 240-244: the default result
            /\ raised' = "none"
            /\ ret' = Returned(DefaultSentiment)
            /\ op' = Call("analyze_sentiment", "", TRUE)
    /\ UNCHANGED <<text, pc, files, saved, chunkVars, parseVars, piiVars, conVars, apiVars>>

NextServices ==
    \/ \E d \in DocumentIds, c \in Contents, e \in BOOLEAN : SaveDocument(d, c, e)
    \/ \E d \in DocumentIds, e \in BOOLEAN : GetDocument(d, e)
    \/ \E d \in DocumentIds, e \in BOOLEAN : DeleteDocument(d, e)
    \/ \E r \in SentimentResponses : AnalyzeSentiment(r)

SpecServices == InitServices /\ [][NextServices]_vars

\* the store alone, on a file system that does not fail
NextStore ==
    \/ \E d \in DocumentIds, c \in Contents : SaveDocument(d, c, FALSE)
    \/ \E d \in DocumentIds : GetDocument(d, FALSE)
    \/ \E d \in DocumentIds : DeleteDocument(d, FALSE)

SpecStore == InitServices /\ [][NextStore]_vars

(***************************************************************************)
(* Concurrent calls of _chunk_text, _extract_pii and _format_summary on the *)
(* shared service instances.  Each call has its own frame of locals; the   *)
(* instances' attributes are the only state the calls have in common.      *)
(***************************************************************************)
MaxCalls == 2

Callers == {1, 2}

\* DocumentProcessor.pii_patterns and the style names of ReportGenerator.styles
ServiceInstances ==
    [ pii_patterns |-> pii_patterns,
      styles |-> {"MainTitle", "SectionTitle", "SubsectionTitle", "NormalText",
                  "ListItem"} ]

Idle == [fn |-> "none", pc |-> "idle", overlaps |-> FALSE]

\* the frame of a call: its arguments and its locals before the first statement
ChunkFrame(t, m) ==
    [ fn |-> "_chunk_text", pc |-> "call", overlaps |-> FALSE,
      text |-> t, max_chunk_size |-> m,
      words |-> <<>>, wi |-> 0, chunks |-> <<>>, current_chunk |-> <<>>,
      current_size |-> 0 ]

ParseFrame(t) ==
    [ fn |-> "_format_summary", pc |-> "call", overlaps |-> FALSE,
      text |-> t,
      lines |-> <<>>, i |-> 0, paragraphs |-> <<>>, current_text |-> <<>> ]

PiiFrame(t) ==
    [ fn |-> "_extract_pii", pc |-> "call", overlaps |-> FALSE,
      text |-> t,
      findings |-> <<>>, pii_k |-> 0, matches |-> <<>>, pos |-> 0 ]

\* arguments of the concurrent calls
ConChunkArgs == {<<Chars("a bbbb a"), 2>>, <<Chars("cccccccc a"), 1>>}
ConParseTexts == {Chars("a\n\n* c\n*d"), Chars(" b \na\n1. e")}
ConPiiTexts == {Chars("a@b.com 555-123-4567"), Chars("x@y.c|d 123-45-6789")}

ConFrames ==
    {ChunkFrame(a[1], a[2]) : a \in ConChunkArgs}
        \cup {ParseFrame(t) : t \in ConParseTexts}
        \cup {PiiFrame(t) : t \in ConPiiTexts}

\* openai_service.py lines 69-88: one statement group of _chunk_text
ChunkFrameStep(f) ==
    IF f.pc = "call"
    THEN [f EXCEPT !.words = SplitWs(f.text), !.pc = "loop"]
    ELSE IF f.wi < Len(f.words)
    THEN LET word == f.words[f.wi + 1]
             word_size == WordSize(word)
         IN IF f.current_size + word_size > f.max_chunk_size
            THEN [f EXCEPT !.chunks = Append(@, Join(f.current_chunk, <<" ">>)),
                           !.current_chunk = <<word>>,
                           !.current_size = word_size,
                           !.wi = @ + 1]
            ELSE [f EXCEPT !.current_chunk = Append(@, word),
                           !.current_size = @ + word_size,
                           !.wi = @ + 1]
    ELSE [f EXCEPT !.chunks = IF f.current_chunk # <<>>
                              THEN Append(@, Join(f.current_chunk, <<" ">>))
                              ELSE @,
                   !.pc = "done"]

\* report_generator.py lines 99-174: one iteration of the scan of _format_summary
ParseFrameStep(f) ==
    IF f.pc = "call"
    THEN [f EXCEPT !.lines = SplitOn(f.text, "\n"), !.pc = "loop"]
    ELSE IF ~(f.i < Len(f.lines))
    THEN [f EXCEPT !.paragraphs = Flush(@, f.current_text), !.pc = "done"]
    ELSE LET line == Strip(f.lines[f.i + 1]) IN
         IF line = <<>>
         THEN [f EXCEPT !.paragraphs = Flush(@, f.current_text),
                        !.current_text = <<>>,
                        !.i = @ + 1]
         ELSE IF IsHeading(f.lines, f.i)
         THEN [f EXCEPT !.paragraphs = Flush(@, f.current_text)
                                          \o <<Paragraph(line, "SubsectionTitle"),
                                               Spacer(1, 10)>>,
                        !.current_text = <<>>,
                        !.i = @ + 2]
         ELSE IF StartsWithBullet(line)
         THEN [f EXCEPT !.paragraphs =
                            Flush(@, f.current_text)
                                \o BulletFlowables(f.lines, f.i, BulletRunEnd(f.lines, f.i))
                                \o <<Spacer(1, 6)>>,
                        !.current_text = <<>>,
                        !.i = BulletRunEnd(f.lines, f.i)]
         ELSE IF MatchNumbered(line)
         THEN [f EXCEPT !.paragraphs =
                            Flush(@, f.current_text)
                                \o NumberedFlowables(f.lines, f.i, NumberedRunEnd(f.lines, f.i))
                                \o <<Spacer(1, 6)>>,
                        !.current_text = <<>>,
                        !.i = NumberedRunEnd(f.lines, f.i)]
         ELSE [f EXCEPT !.current_text = Append(@, line), !.i = @ + 1]

\* document_processor.py lines 99-105: one step of _extract_pii over the
\* patterns of the instance self
PiiFrameStep(f, self) ==
    IF f.pc = "call"
    THEN [f EXCEPT !.findings = [key \in {} |-> <<>>], !.pii_k = 1, !.pc = "scan"]
    ELSE IF ~(f.pii_k <= Len(self.pii_patterns))
    THEN [f EXCEPT !.pc = "done"]
    ELSE LET pattern == self.pii_patterns[f.pii_k].pattern
             pii_type == self.pii_patterns[f.pii_k].pii_type
             start == SearchFrom(f.text, pattern, f.pos)
         IN IF start # -1
            THEN [f EXCEPT !.matches =
                               Append(@, SubSeq(f.text, start + 1,
                                                MatchAt(f.text, pattern, start))),
                           !.pos = MatchAt(f.text, pattern, start)]
            ELSE [f EXCEPT !.findings =
                               [key \in DOMAIN f.findings \cup {pii_type} |->
                                   IF key = pii_type THEN f.matches
                                   ELSE f.findings[key]],
                           !.pii_k = @ + 1,
                           !.matches = <<>>,
                           !.pos = 0]

FrameStep(f, self) ==
    CASE f.fn = "_chunk_text" -> ChunkFrameStep(f)
      [] f.fn = "_format_summary" -> ParseFrameStep(f)
      [] f.fn = "_extract_pii" -> PiiFrameStep(f, self)

\* the value a finished call returns
Result(f) ==
    CASE f.fn = "_chunk_text" -> f.chunks
      [] f.fn = "_format_summary" -> f.paragraphs
      [] f.fn = "_extract_pii" -> f.findings

\* the frame the call of f started from
NewFrame(f) ==
    CASE f.fn = "_chunk_text" -> ChunkFrame(f.text, f.max_chunk_size)
      [] f.fn = "_format_summary" -> ParseFrame(f.text)
      [] f.fn = "_extract_pii" -> PiiFrame(f.text)

\* the value the call of frame f returns when it runs from f to its end with
\* no other call running
RECURSIVE RunAlone(_, _)
RunAlone(f, self) ==
    IF f.pc = "done" THEN Result(f) ELSE RunAlone(FrameStep(f, self), self)

Running(f) == f.pc \notin {"idle", "done"}

InitConcurrent ==
    /\ frames = [w \in Callers |-> Idle]
    /\ instances = ServiceInstances
    /\ ncalls = [w \in Callers |-> 0]
    /\ request = NoRequest
    /\ reply = NoReply
    /\ reports = {}
    /\ trace = <<>>
    /\ text = <<>>
    /\ pc = "concurrent"
    /\ raised = "none"
    /\ max_chunk_size = 0
    /\ words = <<>>
    /\ wi = 0
    /\ chunks = <<>>
    /\ current_chunk = <<>>
    /\ current_size = 0
    /\ lines = <<>>
    /\ i = 0
    /\ paragraphs = <<>>
    /\ current_text = <<>>
    /\ findings = <<>>
    /\ pii_k = 0
    /\ matches = <<>>
    /\ pos = 0
    /\ files = NoFiles
    /\ op = NoCall
    /\ ret = NoValue
    /\ saved = NoFiles

\* a caller that is not in a call enters one; overlaps records whether
\* another caller's call is in progress at that moment
ConCall(w, f) ==
    /\ pc = "concurrent"
    /\ ~Running(frames[w])
    /\ ncalls[w] < MaxCalls
    /\ frames' = [frames EXCEPT ![w] =
                     [f EXCEPT !.overlaps = \E v \in Callers \ {w} : Running(frames[v])]]
    /\ ncalls' = [ncalls EXCEPT ![w] = @ + 1]
    /\ UNCHANGED <<instances, text, pc, raised, chunkVars, parseVars, piiVars, svcVars, apiVars>>

\* a step of a call of _chunk_text
ConChunkStep(w) ==
    /\ pc = "concurrent"
    /\ Running(frames[w])
    /\ frames[w].fn = "_chunk_text"
    /\ frames' = [frames EXCEPT ![w] = ChunkFrameStep(frames[w])]
    /\ UNCHANGED <<instances, ncalls, text, pc, raised, chunkVars, parseVars, piiVars, svcVars, apiVars>>

\* a step of a call of _format_summary
ConParseStep(w) ==
    /\ pc = "concurrent"
    /\ Running(frames[w])
    /\ frames[w].fn = "_format_summary"
    /\ frames' = [frames EXCEPT ![w] = ParseFrameStep(frames[w])]
    /\ UNCHANGED <<instances, ncalls, text, pc, raised, chunkVars, parseVars, piiVars, svcVars, apiVars>>

\* ConPiiStep of a scanner that keeps findings as an attribute of the instance
ConPiiStepSharedFindings(w) ==
    /\ pc = "concurrent"
    /\ Running(frames[w])
    /\ frames[w].fn = "_extract_pii"
    /\ LET shared == IF "findings" \in DOMAIN instances
                     THEN instances.findings ELSE <<>>
           before == IF frames[w].pc = "call" THEN frames[w]
                     ELSE [frames[w] EXCEPT !.findings = shared]
           after == PiiFrameStep(before, instances)
       IN /\ frames' = [frames EXCEPT ![w] = after]
          /\ instances' = [ pii_patterns |-> instances.pii_patterns,
                            styles |-> instances.styles,
                            findings |-> after.findings ]
    /\ UNCHANGED <<ncalls, text, pc, raised, chunkVars, parseVars, piiVars, svcVars, apiVars>>

\* a step of a call of _extract_pii
ConPiiStep(w) ==
    /\ pc = "concurrent"
    /\ Running(frames[w])
    /\ frames[w].fn = "_extract_pii"
    /\ frames' = [frames EXCEPT ![w] = PiiFrameStep(frames[w], instances)]
    /\ UNCHANGED <<instances, ncalls, text, pc, raised, chunkVars, parseVars, piiVars, svcVars, apiVars>>

NextConcurrent ==
    \/ \E w \in Callers, f \in ConFrames : ConCall(w, f)
    \/ \E w \in Callers : ConChunkStep(w)
    \/ \E w \in Callers : ConParseStep(w)
    \/ \E w \in Callers : ConPiiStep(w)

SpecConcurrent == InitConcurrent /\ [][NextConcurrent]_vars

\* C13: the chunker, the PII scanner and the block parser keep no shared
\* mutable state: under every interleaving of the callers' steps no step
\* changes an attribute of the shared instances or another caller's locals,
\* and every finished call, whatever calls ran before it or alongside it,
\* returns the value it returns when run alone on the same arguments.
C13_CallsIndependent ==
    /\ [][instances' = instances]_vars
    /\ [][\A w \in Callers :
            frames'[w] # frames[w] => \A v \in Callers \ {w} : frames'[v] = frames[v]]_vars
    /\ [](\A w \in Callers :
            frames[w].pc = "done"
                => Result(frames[w]) = RunAlone(NewFrame(frames[w]), ServiceInstances))

\* C13 witness: both callers have finished a scan of different texts on the
\* shared DocumentProcessor, the second caller's being at least its second
\* call and entered while the first caller's call was in progress
C13_Witness ==
    /\ pc = "concurrent"
    /\ frames[1].pc = "done"
    /\ frames[2].pc = "done"
    /\ frames[1].fn = "_extract_pii"
    /\ frames[2].fn = "_extract_pii"
    /\ frames[1].text # frames[2].text
    /\ frames[2].overlaps
    /\ ncalls[2] >= 2
    /\ frames[1].findings # frames[2].findings

\* C11: the store is a key-to-blob map: get_document(id) returns the content
\* of the most recent successful save_document(id, ...) not followed by a
\* delete_document(id) and None otherwise, delete_document(id) returns True
\* exactly when a record for id existed, and a call on one id leaves the
\* record of every other id unchanged.
C11_KeyToBlobMap ==
    [][ /\ op'.name = "get_document" =>
             ret' = IF op'.document_id # ""
                       /\ saved[FilePath(op'.document_id)].state = "json"
                    THEN Returned(saved[FilePath(op'.document_id)].data)
                    ELSE ReturnedNone
        /\ op'.name = "delete_document" =>
             ret' = ReturnedBool(op'.document_id # ""
                                 /\ files[FilePath(op'.document_id)] # Absent)
        /\ \A path \in StoredPaths :
             path # FilePath(op'.document_id) => files'[path] = files[path]
      ]_vars

\* C12: a collaborator call that failed (a store read, write or delete, a
\* malformed or empty completion) ends in an error for the caller, never in a
\* normal return value.
C12_FailureSurfaces == op.failed => ret.kind = "raise"

(***************************************************************************)
(* The HTTP endpoints of app/main.py: upload_file, get_report and          *)
(* chat_with_document.  A handler runs one statement group per step; an    *)
(* exception raised in its try body is turned into the reply by its except *)
(* clauses.                                                                *)
(***************************************************************************)
\* line 80
AllowedTypes == {"application/pdf", "image/jpeg", "image/png"}

ContentTypes == {"application/pdf", "image/png", "text/plain"}

\* exceptions as the except clauses see them
HTTPException(status_code, detail) ==
    [type |-> "HTTPException", status_code |-> status_code, detail |-> detail]

Error(type, detail) == [type |-> type, status_code |-> 0, detail |-> detail]

NoException == [type |-> "none", status_code |-> 0, detail |-> ""]

\* the reply FastAPI sends for an HTTPException that leaves the handler
ErrorReply(e) == [status |-> e.status_code, detail |-> e.detail]

\* lines 142 and 177: the report file of a document
ReportName(document_id) == "report_" \o document_id \o ".pdf"

ReportNames == {ReportName(d) : d \in DocumentIds \ {""}} \cup {"x.pdf"}

\* texts process_document can extract
UploadTexts == {"", "t1"}

\* a request to POST /upload/; uuid is the value uuid.uuid4() will give
UploadRequest(content_type, uuid) ==
    [ endpoint |-> "upload_file", pc |-> "upload_validate",
      content_type |-> content_type, uuid |-> uuid,
      document_id |-> "", text |-> "", exc |-> NoException ]

\* lines 121-131: the content handed to save_document (an image carries its
\* size, a tuple, in the metadata)
UploadContent(req) ==
    IF req.content_type = "application/pdf"
    THEN [text |-> PyStr(req.text), summary |-> PyStr("s")]
    ELSE [text |-> PyStr(req.text), summary |-> PyStr("s"),
          size |-> PyTuple(<<"1", "2">>)]

\* lines 166-171: the except clauses of upload_file
UploadExcept(e) ==
    IF e.type = "ValueError"
    THEN HTTPException(400, e.detail)
    ELSE HTTPException(500, e.detail)

\* the try body of upload_file raises e
UploadRaises(e) ==
    /\ request' = [request EXCEPT !.pc = "responded", !.exc = e]
    /\ reply' = ErrorReply(UploadExcept(e))

\* lines 80-93: the content type test, then the document id
UploadValidate ==
    /\ pc = "api"
    /\ request.pc = "upload_validate"
    /\ IF request.content_type \notin AllowedTypes
       THEN UploadRaises(HTTPException(400, "Only PDF and image files (JPEG, PNG) are allowed"))
       ELSE /\ request' = [request EXCEPT !.document_id = request.uuid,
                                          !.pc = "upload_process"]
            /\ reply' = reply
    /\ UNCHANGED <<trace, reports, text, pc, raised, chunkVars, parseVars, piiVars, svcVars, conVars>>

\* lines 96-112: the upload is written and process_document is awaited
UploadProcess(ok, t) ==
    /\ pc = "api"
    /\ request.pc = "upload_process"
    /\ trace' = Append(trace, "process_document")
    /\ IF ~ok
       THEN UploadRaises(Error("Exception", "Failed to process document"))
       ELSE /\ request' = [request EXCEPT !.text = t, !.pc = "upload_summary"]
            /\ reply' = reply
    /\ UNCHANGED <<reports, text, pc, raised, chunkVars, parseVars, piiVars, svcVars, conVars>>

\* line 115: generate_summary; a text without words has no chunk and no summary
UploadSummary(ok) ==
    /\ pc = "api"
    /\ request.pc = "upload_summary"
    /\ trace' = Append(trace, "generate_summary")
    /\ IF ~ok \/ request.text = ""
       THEN UploadRaises(Error("Exception", "Failed to generate summary"))
       ELSE /\ request' = [request EXCEPT !.pc = "upload_sentiment"]
            /\ reply' = reply
    /\ UNCHANGED <<reports, text, pc, raised, chunkVars, parseVars, piiVars, svcVars, conVars>>

\* line 116: analyze_sentiment
UploadSentiment(ok) ==
    /\ pc = "api"
    /\ request.pc = "upload_sentiment"
    /\ trace' = Append(trace, "analyze_sentiment")
    /\ IF ~ok
       THEN UploadRaises(Error("Exception", "Failed to analyze sentiment"))
       ELSE /\ request' = [request EXCEPT !.pc = "upload_save"]
            /\ reply' = reply
    /\ UNCHANGED <<reports, text, pc, raised, chunkVars, parseVars, piiVars, svcVars, conVars>>

\* lines 120-139: save_document; its failure is re-raised as ValueError
UploadSave(io_error) ==
    /\ pc = "api"
    /\ request.pc = "upload_save"
    /\ trace' = Append(trace, "save_document")
    /\ IF io_error
       THEN /\ UploadRaises(Error("ValueError", "Failed to save document"))
            /\ files' = files
       ELSE /\ files' = [files EXCEPT ![FilePath(request.document_id)] =
                            JsonFile(JsonRoundTrip(UploadContent(request)))]
            /\ request' = [request EXCEPT !.pc = "upload_report"]
            /\ reply' = reply
    /\ UNCHANGED <<reports, op, ret, saved, text, pc, raised, chunkVars, parseVars, piiVars, conVars>>

\* lines 141-164: generate_report, then the success reply
UploadReport(ok) ==
    /\ pc = "api"
    /\ request.pc = "upload_report"
    /\ trace' = Append(trace, "generate_report")
    /\ IF ~ok
       THEN /\ UploadRaises(Error("Exception", "Failed to generate report"))
            /\ reports' = reports
       ELSE /\ reports' = reports \cup {ReportName(request.document_id)}
            /\ request' = [request EXCEPT !.pc = "responded"]
            /\ reply' = [status |-> 200, detail |-> "success"]
    /\ UNCHANGED <<text, pc, raised, chunkVars, parseVars, piiVars, svcVars, conVars>>

\* a request to GET /report/{filename}
ReportRequest(filename) ==
    [ endpoint |-> "get_report", pc |-> "report_lookup",
      filename |-> filename, exc |-> NoException ]

\* lines 187-189: the except clause of get_report
ReportExcept(e) == HTTPException(500, e.detail)

\* lines 176-189
GetReport ==
    /\ pc = "api"
    /\ request.pc = "report_lookup"
    /\ IF request.filename \notin reports
       THEN LET e == HTTPException(404, "Report not found") IN
            /\ request' = [request EXCEPT !.pc = "responded", !.exc = e]
            /\ reply' = ErrorReply(ReportExcept(e))
       ELSE /\ request' = [request EXCEPT !.pc = "responded"]
            /\ reply' = [status |-> 200, detail |-> "success"]
    /\ UNCHANGED <<trace, reports, text, pc, raised, chunkVars, parseVars, piiVars, svcVars, conVars>>

Questions == {Chars(""), Chars(" "), Chars("q")}

\* a request to POST /chat/
ChatRequest(question, document_id) ==
    [ endpoint |-> "chat_with_document", pc |-> "chat_validate",
      question |-> question, document_id |-> document_id,
      document_context |-> ReturnedNone, exc |-> NoException ]

\* lines 234-239: the except clauses of chat_with_document
ChatExcept(e) ==
    IF e.type = "HTTPException" THEN e ELSE HTTPException(500, e.detail)

\* the try body of chat_with_document raises e
ChatRaises(e) ==
    /\ request' = [request EXCEPT !.pc = "responded", !.exc = e]
    /\ reply' = ErrorReply(ChatExcept(e))

\* document_storage.py lines 41-70: the value get_document returns
StoredDocument(fs, document_id, io_error) ==
    IF document_id = "" THEN ReturnedNone
    ELSE LET file == fs[FilePath(document_id)] IN
         IF file = Absent THEN ReturnedNone
         ELSE IF io_error \/ file = Partial THEN ReturnedNone
         ELSE IF DOMAIN file.data = {} \/ "text" \notin DOMAIN file.data
         THEN ReturnedNone
         ELSE Returned(file.data)

\* not document_context.get('text')
HasNoText(document) ==
    \/ "text" \notin DOMAIN document
    \/ document["text"].v = <<"">>

\* lines 200-203: the tests on the request
ChatValidate ==
    /\ pc = "api"
    /\ request.pc = "chat_validate"
    /\ IF request.document_id = ""
       THEN ChatRaises(HTTPException(400, "Document ID is required"))
       ELSE IF Strip(request.question) = <<>>
       THEN ChatRaises(HTTPException(400, "Question cannot be empty"))
       ELSE /\ request' = [request EXCEPT !.pc = "chat_get"]
            /\ reply' = reply
    /\ UNCHANGED <<trace, reports, text, pc, raised, chunkVars, parseVars, piiVars, svcVars, conVars>>

\* ChatGet without the test of lines 212-214 on the document's text
ChatGetSkipsTextCheck(io_error) ==
    /\ pc = "api"
    /\ request.pc = "chat_get"
    /\ trace' = Append(trace, "get_document")
    /\ LET document_context == StoredDocument(files, request.document_id, io_error) IN
       IF document_context = ReturnedNone
       THEN ChatRaises(HTTPException(404, "Document not found"))
       ELSE /\ request' = [request EXCEPT !.document_context = document_context,
                                          !.pc = "chat_generate"]
            /\ reply' = reply
    /\ UNCHANGED <<reports, text, pc, raised, chunkVars, parseVars, piiVars, svcVars, conVars>>

\* lines 206-214: the document is read from the store and tested
ChatGet(io_error) ==
    /\ pc = "api"
    /\ request.pc = "chat_get"
    /\ trace' = Append(trace, "get_document")
    /\ LET document_context == StoredDocument(files, request.document_id, io_error) IN
       IF document_context = ReturnedNone
       THEN ChatRaises(HTTPException(404, "Document not found"))
       ELSE IF HasNoText(document_context.value)
       THEN ChatRaises(HTTPException(400, "Document has no text content"))
       ELSE /\ request' = [request EXCEPT !.document_context = document_context,
                                          !.pc = "chat_generate"]
            /\ reply' = reply
    /\ UNCHANGED <<reports, text, pc, raised, chunkVars, parseVars, piiVars, svcVars, conVars>>

\* what generate_chat_response can do: return an answer, return '' (an answer
\* of whitespace only, stripped), or raise
ChatOutcomes == {"answer", "blank", "raise"}

\* lines 220-233: the generation call and the success reply
ChatGenerate(outcome) ==
    /\ pc = "api"
    /\ request.pc = "chat_generate"
    /\ trace' = Append(trace, "generate_chat_response")
    /\ IF outcome = "raise"
       THEN ChatRaises(Error("Exception", "Error generating chat response"))
       ELSE IF outcome = "blank"
       THEN ChatRaises(HTTPException(500, "Failed to generate response"))
       ELSE /\ request' = [request EXCEPT !.pc = "responded"]
            /\ reply' = [status |-> 200, detail |-> "success"]
    /\ UNCHANGED <<reports, text, pc, raised, chunkVars, parseVars, piiVars, svcVars, conVars>>

\* the store directory as earlier runs can have left it: empty, holding a
\* document whose text is empty, holding a file cut short by a failed write
ApiStores ==
    { NoFiles,
      [NoFiles EXCEPT ![FilePath("a")] = JsonFile([text |-> PyStr("")])],
      [NoFiles EXCEPT ![FilePath("a")] = Partial] }

\* the requests a client can send
ApiRequests ==
    {UploadRequest(ct, d) : ct \in ContentTypes, d \in DocumentIds \ {""}}
        \cup {ReportRequest(name) : name \in ReportNames}
        \cup {ChatRequest(q, d) : q \in Questions, d \in DocumentIds}

InitApi ==
    /\ files \in ApiStores
    /\ request = NoRequest
    /\ reply = NoReply
    /\ reports = {}
    /\ trace = <<>>
    /\ pc = "api"
    /\ op = NoCall
    /\ ret = NoValue
    /\ saved = NoFiles
    /\ frames = NoFrames
    /\ instances = NoInstances
    /\ ncalls = NoCalls
    /\ raised = "none"
    /\ text = <<>>
    /\ max_chunk_size = 0
    /\ words = <<>>
    /\ wi = 0
    /\ chunks = <<>>
    /\ current_chunk = <<>>
    /\ current_size = 0
    /\ lines = <<>>
    /\ i = 0
    /\ paragraphs = <<>>
    /\ current_text = <<>>
    /\ findings = <<>>
    /\ pii_k = 0
    /\ matches = <<>>
    /\ pos = 0

\* a request arrives once the previous one has been answered; the uuid of an
\* upload is one no stored document has
ApiReceive(req) ==
    /\ pc = "api"
    /\ request.pc \in {"idle", "responded"}
    /\ req.endpoint = "upload_file" => files[FilePath(req.uuid)] = Absent
    /\ request' = req
    /\ reply' = NoReply
    /\ trace' = <<>>
    /\ UNCHANGED <<reports, text, pc, raised, chunkVars, parseVars, piiVars, svcVars, conVars>>

NextApi ==
    \/ \E req \in ApiRequests : ApiReceive(req)
    \/ UploadValidate
    \/ \E ok \in BOOLEAN, t \in UploadTexts : UploadProcess(ok, t)
    \/ \E ok \in BOOLEAN : UploadSummary(ok)
    \/ \E ok \in BOOLEAN : UploadSentiment(ok)
    \/ \E io_error \in BOOLEAN : UploadSave(io_error)
    \/ \E ok \in BOOLEAN : UploadReport(ok)
    \/ GetReport
    \/ ChatValidate
    \/ \E io_error \in BOOLEAN : ChatGet(io_error)
    \/ \E outcome \in ChatOutcomes : ChatGenerate(outcome)

SpecApi == InitApi /\ [][NextApi]_vars

Responded(endpoint) == request.endpoint = endpoint /\ request.pc = "responded"

\* C21: every client-error HTTPException raised inside a handler reaches the
\* client with its own status code: an upload with a content type that is not
\* allowed is answered 400, get_report for a file that does not exist 404,
\* chat_with_document for an unknown document id 404, none of them 500.
C21_ClientErrorsKeepStatus ==
    /\ (/\ request.pc = "responded"
        /\ request.exc.type = "HTTPException"
        /\ request.exc.status_code \in 400..499)
           => reply.status = request.exc.status_code
    /\ (Responded("upload_file") /\ request.content_type \notin AllowedTypes)
           => reply.status = 400
    /\ (Responded("get_report") /\ request.filename \notin reports)
           => reply.status = 404
    /\ (/\ Responded("chat_with_document")
        /\ request.document_id # ""
        /\ Strip(request.question) # <<>>
        /\ files[FilePath(request.document_id)] = Absent)
           => reply.status = 404

\* C22: when an upload request has been answered, a document record under
\* its document_id is in the store if and only if the answer is a success; a
\* successful upload's document is returned by a later get_document.
C22_StoredIffSuccess ==
    Responded("upload_file") =>
        /\ (/\ request.document_id # ""
            /\ files[FilePath(request.document_id)] # Absent)
              <=> reply.status = 200
        /\ reply.status = 200
              => StoredDocument(files, request.document_id, FALSE) # ReturnedNone

\* the number of generation calls the handler has made for the request
GenerationCalls ==
    Cardinality({k \in 1..Len(trace) : trace[k] = "generate_chat_response"})

\* C23: chat_with_document calls the generative service at most once per
\* request, and only after the request has a non-empty document_id, a
\* non-blank question, a stored document found for the id and a non-empty
\* 'text' in it, tested in that order; a request that fails a test is
\* answered with the error of the first test it fails and makes no
\* generation call.
C23_GenerationAfterValidation ==
    request.endpoint = "chat_with_document" =>
        /\ GenerationCalls <= 1
        /\ GenerationCalls = 1 =>
              /\ request.document_id # ""
              /\ Strip(request.question) # <<>>
              /\ trace = <<"get_document", "generate_chat_response">>
              /\ request.document_context # ReturnedNone
              /\ request.document_context =
                     StoredDocument(files, request.document_id, FALSE)
              /\ ~HasNoText(request.document_context.value)
        /\ request.pc = "responded" =>
              IF request.document_id = ""
              THEN /\ reply = [status |-> 400, detail |-> "Document ID is required"]
                   /\ trace = <<>>
              ELSE IF Strip(request.question) = <<>>
              THEN /\ reply = [status |-> 400, detail |-> "Question cannot be empty"]
                   /\ trace = <<>>
              ELSE IF StoredDocument(files, request.document_id, FALSE) = ReturnedNone
              THEN /\ reply = [status |-> 404, detail |-> "Document not found"]
                   /\ trace = <<"get_document">>
              ELSE IF HasNoText(StoredDocument(files, request.document_id, FALSE).value)
              THEN /\ reply.status \in {400, 404}
                   /\ trace = <<"get_document">>
              ELSE TRUE

\* C23 witness: a chat request on a stored document has been answered with
\* success after one read of the store and one generation call
C23_Witness ==
    /\ Responded("chat_with_document")
    /\ reply.status = 200
    /\ trace = <<"get_document", "generate_chat_response">>
    /\ ~HasNoText(request.document_context.value)

====
